---- MODULE Spec2Model ----
(***************************************************************************)
(* A model of valaam.py: a linear pipeline that scrapes a chant page, an   *)
(* album page and a playlist payload, asks the user what to download and   *)
(* writes tagged audio files.                                              *)
(*                                                                         *)
(* Text is modelled as a sequence of one-character strings where the code  *)
(* looks inside it (input lines, the stringified track number) and as an   *)
(* opaque string where the code only copies or compares it (titles,       *)
(* hrefs, names, artists).  A page is the sequence of the pieces of it the *)
(* code's patterns can tell apart.  The network and the keyboard are the   *)
(* environment: each response and each input line is chosen with \E.       *)
(* The tag library and the file system are taken to work as documented on  *)
(* a file that was written completely.                                     *)
(***************************************************************************)
EXTENDS Integers, Sequences, FiniteSets, TLC

\* ------------------------------------------------------------------ bounds

\* Longest input line SpecSelect types at the menu.
MaxLineLen == 3
\* Largest number of options of the mapping SpecSelect hands to the menu.
MaxOptions == 3
\* Largest number of anchor elements on a chant or album page.
MaxPageLen == 2
\* Largest number of tracks in an embedded playlist payload.
MaxTracks == 2

\* ------------------------------------------------------------- input sets

\* The characters an input line of SpecSelect is made of.
Chars == {"q", "Q", "a", "0", "1", "7", "-", "+", " "}

RECURSIVE SeqsUpTo(_, _)
\* All sequences over S of length at most n.
SeqsUpTo(S, n) ==
    IF n = 0 THEN {<<>>}
    ELSE LET shorter == SeqsUpTo(S, n - 1)
         IN  shorter \cup {Append(s, x) : s \in {t \in shorter : Len(t) = n - 1}, x \in S}

\* The input lines of SpecSelect: every line of those characters up to the
\* length bound, and a word.
Lines == SeqsUpTo(Chars, MaxLineLen) \cup {<<"a", "b", "c">>}

\* The input lines typed during a whole run (Spec).
KeyedLines ==
    { <<"q">>, <<"Q">>, <<"y">>, <<"Y">>, <<"n">>, <<>>,
      <<"0">>, <<"1">>, <<"2">>, <<"7">>, <<"-", "1">>, <<" ", "1">>,
      <<"a", "b", "c">>, <<"q", "q">> }

Titles == {"T1", "T2"}
Hrefs == {"/a", "/b"}
Classes == {"chants-title", "nav"}

\* ----------------------------------------------------------- str and int

\* str.lower() on the characters of the model's alphabet.
LowerChar(c) ==
    CASE c = "Q" -> "q"
      [] c = "Y" -> "y"
      [] OTHER -> c

Lower(s) == [i \in 1..Len(s) |-> LowerChar(s[i])]

IsDigit(c) == c \in {"0", "1", "2", "7"}

DigitVal(c) ==
    CASE c = "0" -> 0
      [] c = "1" -> 1
      [] c = "2" -> 2
      [] c = "7" -> 7
      [] OTHER -> 0

RECURSIVE LStrip(_)
LStrip(s) == IF s # <<>> /\ Head(s) = " " THEN LStrip(Tail(s)) ELSE s

RECURSIVE RStrip(_)
RStrip(s) ==
    IF s # <<>> /\ s[Len(s)] = " " THEN RStrip(SubSeq(s, 1, Len(s) - 1)) ELSE s

RECURSIVE DigitsValue(_, _)
\* The decimal value of the digits of s, underscores skipped, acc so far.
DigitsValue(s, acc) ==
    IF s = <<>> THEN acc
    ELSE IF Head(s) = "_" THEN DigitsValue(Tail(s), acc)
    ELSE DigitsValue(Tail(s), 10 * acc + DigitVal(Head(s)))

\* The digits part of an int() literal: digits, single underscores between them.
IsDigitsBody(s) ==
    /\ s # <<>>
    /\ IsDigit(s[1])
    /\ IsDigit(s[Len(s)])
    /\ \A i \in 1..Len(s) : IsDigit(s[i]) \/ s[i] = "_"
    /\ \A i \in 1..(Len(s) - 1) : ~(s[i] = "_" /\ s[i + 1] = "_")

\* int(str_option): surrounding whitespace stripped, an optional sign, then
\* the digits; anything else is a ValueError (ok = FALSE).
ParseInt(s) ==
    LET t == RStrip(LStrip(s))
        signed == t # <<>> /\ t[1] \in {"-", "+"}
        body == IF signed THEN Tail(t) ELSE t
    IN  IF IsDigitsBody(body)
        THEN [ok |-> TRUE,
              val |-> IF signed /\ t[1] = "-"
                      THEN 0 - DigitsValue(body, 0)
                      ELSE DigitsValue(body, 0)]
        ELSE [ok |-> FALSE, val |-> 0]

RECURSIVE Str(_)
\* str(n) for n >= 0: the decimal digits.
Str(n) ==
    LET d == CASE n % 10 = 0 -> "0" [] n % 10 = 1 -> "1" [] n % 10 = 2 -> "2"
               [] n % 10 = 3 -> "3" [] n % 10 = 4 -> "4" [] n % 10 = 5 -> "5"
               [] n % 10 = 6 -> "6" [] n % 10 = 7 -> "7" [] n % 10 = 8 -> "8"
               [] OTHER -> "9"
    IN  IF n < 10 THEN <<d>> ELSE Append(Str(n \div 10), d)

\* ---------------------------------------------------------------- dict

\* A dict is the sequence of its <<key, value>> items in insertion order.
Keys(d) == [i \in 1..Len(d) |-> d[i][1]]

HasKey(d, k) == \E i \in 1..Len(d) : d[i][1] = k

\* d[k] = v: an existing key keeps its place and takes the new value.
DictSetFirstWins(d, k, v) ==
    IF HasKey(d, k) THEN d ELSE Append(d, <<k, v>>)

DictSet(d, k, v) ==
    IF HasKey(d, k)
    THEN [i \in 1..Len(d) |-> IF d[i][1] = k THEN <<k, v>> ELSE d[i]]
    ELSE Append(d, <<k, v>>)

RECURSIVE DictOf(_, _)
\* {k: v for ...}: the items <<k, v>> inserted in order into d.
DictOf(items, d) ==
    IF items = <<>> THEN d
    ELSE DictOf(Tail(items), DictSet(d, Head(items)[1], Head(items)[2]))

\* ------------------------------------------------------ list_and_select

\* 0 <= int_option <= len(keys): the upper end let in.
InRangeInclusive(int_option, n) == 0 <= int_option /\ int_option <= n

\* 0 <= int_option < len(keys)
InRange(int_option, n) == 0 <= int_option /\ int_option < n

\* str_option == "q": the upper-case token not recognised.
IsQuitCaseSensitive(str_option) == str_option = <<"q">>

\* str_option.lower() == "q"
IsQuit(str_option) == Lower(str_option) = <<"q">>

NoItem == <<"", "">>

\* keys[i]: the place in the list Python reads, 0 for an IndexError; a
\* negative i counts from the end.
PyIndex(i, n) ==
    IF 0 <= i /\ i < n THEN i + 1
    ELSE IF 0 - n <= i /\ i < 0 THEN n + i + 1
    ELSE 0

\* return key, value: the pair the wrong way round.
list_and_select_swapped(options, str_option) ==
    LET keys == Keys(options)
        parsed == ParseInt(str_option)
        at == PyIndex(parsed.val, Len(keys))
    IN  IF IsQuit(str_option)
        THEN [kind |-> "quit", value |-> NoItem[1], key |-> NoItem[2]]
        ELSE IF ~parsed.ok
        THEN [kind |-> "invalid", value |-> NoItem[1], key |-> NoItem[2]]
        ELSE IF InRange(parsed.val, Len(keys))
        THEN IF at = 0
             THEN [kind |-> "index_error", value |-> NoItem[1], key |-> NoItem[2]]
             ELSE [kind |-> "return", value |-> keys[at], key |-> options[at][2]]
        ELSE [kind |-> "range", value |-> NoItem[1], key |-> NoItem[2]]

\* One turn of list_and_select's loop on the line read: quit() ("quit"), the
\* return of (value, key) ("return"), or one of the two corrective messages
\* and another turn ("range", "invalid").  "index_error" is keys[int_option]
\* raising IndexError, which the range test is there to exclude.
list_and_select(options, str_option) ==
    LET keys == Keys(options)
        parsed == ParseInt(str_option)
        at == PyIndex(parsed.val, Len(keys))
    IN  IF IsQuit(str_option)
        THEN [kind |-> "quit", value |-> NoItem[1], key |-> NoItem[2]]
        ELSE IF ~parsed.ok
        THEN [kind |-> "invalid", value |-> NoItem[1], key |-> NoItem[2]]
        ELSE IF InRange(parsed.val, Len(keys))
        THEN IF at = 0
             THEN [kind |-> "index_error", value |-> NoItem[1], key |-> NoItem[2]]
             ELSE [kind |-> "return", value |-> options[at][2], key |-> keys[at]]
        ELSE [kind |-> "range", value |-> NoItem[1], key |-> NoItem[2]]

\* ------------------------------------------------------------- get_page

\* An anchor element of a page: its href, class and title attributes.
Anchors == [href : Hrefs, class : Classes, title : Titles]

\* The chant and album pages: up to MaxPageLen anchors.
Pages == SeqsUpTo(Anchors, MaxPageLen)

\* What requests.get and raise_for_status make of a request: a body, or a
\* RequestException.
Responses(bodies) ==
    [status : {"ok"}, body : bodies] \cup {[status |-> "fail", body |-> <<>>]}

FetchError == "RuntimeError: Failed to retrieve the page"
NoResults == "RuntimeError: No results."

\* get_page: the decoded body, or the RuntimeError.
get_page(response) ==
    IF response.status = "ok"
    THEN [ok |-> TRUE, err |-> "", value |-> response.body]
    ELSE [ok |-> FALSE, err |-> FetchError, value |-> <<>>]

\* ---------------------------------------------------------- get_options

\* chant_pattern on one anchor: href first, a class that starts with
\* chants-title, the title last.
MatchesChantPattern(a) == a.class = "chants-title"

RECURSIVE Findall(_)
\* re.findall(chant_pattern, html_content): the (href, title) groups of the
\* matches in document order.
Findall(html_content) ==
    IF html_content = <<>> THEN <<>>
    ELSE LET a == Head(html_content)
         IN  IF MatchesChantPattern(a)
             THEN <<<<a.href, a.title>>>> \o Findall(Tail(html_content))
             ELSE Findall(Tail(html_content))

\* {href: title for href, title in matches}: keyed by the link.
OptionsOfByHref(matches) ==
    DictOf([i \in 1..Len(matches) |-> <<matches[i][1], matches[i][2]>>], <<>>)

\* {title: href for href, title in matches}
OptionsOf(matches) ==
    DictOf([i \in 1..Len(matches) |-> <<matches[i][2], matches[i][1]>>], <<>>)

\* get_options without the raise: an empty mapping is returned as it is.
get_options_no_raise(response) ==
    LET page == get_page(response)
    IN  IF ~page.ok THEN page
        ELSE [ok |-> TRUE, err |-> "", value |-> OptionsOf(Findall(page.value))]

get_options(response) ==
    LET page == get_page(response)
        matches == Findall(page.value)
    IN  IF ~page.ok THEN page
        ELSE IF matches # <<>>
        THEN [ok |-> TRUE, err |-> "", value |-> OptionsOf(matches)]
        ELSE [ok |-> FALSE, err |-> NoResults, value |-> <<>>]

\* --------------------------------------------------------- get_playlist

Names == {"N1", "N2"}
Artists == {"A1", "A2"}
\* A URL is the sequence of its pieces; an absolute one starts with "http".
Urls == {<<"/s1.mp3">>, <<"http", "://cdn/s2.mp3">>}
base_url == <<"http", "s://valaam.ru">>

Tracks == [name : Names, url : Urls, artist : Artists]

TrackLists == SeqsUpTo(Tracks, MaxTracks)

\* The pieces of an album page playlist_pattern tells apart: text it does not
\* match, and a window.vmAudioPlayer({...}); call whose payload is a JSON
\* object with a songs array, a JSON object without one, or not JSON.
TextBlock == [kind |-> "text", songs |-> <<>>]
NoSongsBlock == [kind |-> "json_no_songs", songs |-> <<>>]
GarbageBlock == [kind |-> "not_json", songs |-> <<>>]
SongsBlocks == [kind : {"json"}, songs : TrackLists]
DecoyBlock ==
    [kind |-> "json",
     songs |-> <<[name |-> "N2", url |-> <<"/s1.mp3">>, artist |-> "A2"]>>]
Blocks == SongsBlocks \cup {TextBlock, NoSongsBlock, GarbageBlock}

\* The album pages: no block, one block, text before a block, and a block
\* followed by a second call.
AlbumPages ==
    {<<>>} \cup {<<b>> : b \in Blocks}
           \cup {<<TextBlock, b>> : b \in Blocks}
           \cup {<<b, DecoyBlock>> : b \in Blocks}

MatchesPlaylistPattern(b) == b.kind # "text"

RECURSIVE Search(_)
\* re.search(playlist_pattern, html_content, DOTALL): <<the first match>>, or
\* <<>> for None.
Search(html_content) ==
    IF html_content = <<>> THEN <<>>
    ELSE IF MatchesPlaylistPattern(Head(html_content))
    THEN <<Head(html_content)>>
    ELSE Search(Tail(html_content))

KeyErrorSongs == "KeyError: 'songs'"

\* get_playlist: the songs of the first payload; [] with a diagnostic when
\* there is no match or json.loads raises JSONDecodeError; data["songs"] on an
\* object without that key raises KeyError, which nothing catches.
get_playlist(response) ==
    LET page == get_page(response)
        match == Search(page.value)
    IN  IF ~page.ok THEN [ok |-> FALSE, err |-> page.err, value |-> <<>>, diag |-> ""]
        ELSE IF match = <<>>
        THEN [ok |-> TRUE, err |-> "", value |-> <<>>, diag |-> "Block not found"]
        ELSE IF match[1].kind = "not_json"
        THEN [ok |-> TRUE, err |-> "", value |-> <<>>, diag |-> "Failed to parse JSON"]
        ELSE IF match[1].kind = "json_no_songs"
        THEN [ok |-> FALSE, err |-> KeyErrorSongs, value |-> <<>>, diag |-> ""]
        ELSE [ok |-> TRUE, err |-> "", value |-> match[1].songs, diag |-> ""]

\* ------------------------------------------- download_mp3, add_metadata

NoTags == [title |-> "", album |-> "", artist |-> "", tracknumber |-> <<>>]

\* The body served at a URL, as the chunks iter_content yields.
Content(url) == <<<<url, 1>>, <<url, 2>>>>

Resolve(url) ==
    IF url # <<>> /\ url[1] = "http" THEN url ELSE base_url \o url

\* What a download can meet: "ok"; "refused", a RequestException from
\* requests.get or raise_for_status, before the file is opened; "broken", a
\* RequestException from iter_content after the file was opened and the
\* first chunk written.
Outcomes == {"ok", "refused", "broken"}

Put(files, file_path, file) ==
    [p \in DOMAIN files \cup {file_path} |-> IF p = file_path THEN file ELSE files[p]]

\* open(file_path, 'ab'): the chunks go after what the file held.
download_mp3_append(files, url, file_path, outcome) ==
    LET old == IF file_path \in DOMAIN files THEN files[file_path].data ELSE <<>>
        body == Content(Resolve(url))
    IN  CASE outcome = "ok" ->
               [ok |-> TRUE,
                files |-> Put(files, file_path, [data |-> old \o body, tags |-> NoTags])]
          [] outcome = "broken" ->
               [ok |-> FALSE,
                files |-> Put(files, file_path,
                              [data |-> old \o <<body[1]>>, tags |-> NoTags])]
          [] OTHER -> [ok |-> FALSE, files |-> files]

\* download_mp3: the file system after it, and what it returns.  open(.., 'wb')
\* truncates, so the tags an earlier file held at the path go with its data.
download_mp3(files, url, file_path, outcome) ==
    LET body == Content(Resolve(url))
    IN  CASE outcome = "ok" ->
               [ok |-> TRUE,
                files |-> Put(files, file_path, [data |-> body, tags |-> NoTags])]
          [] outcome = "broken" ->
               [ok |-> FALSE,
                files |-> Put(files, file_path, [data |-> <<body[1]>>, tags |-> NoTags])]
          [] OTHER -> [ok |-> FALSE, files |-> files]

\* add_metadata: the four fields set on the file's tag container (created
\* when the file has none) and saved.
add_metadata(files, file_path, album_data, song_data, track_number) ==
    Put(files, file_path,
        [data |-> files[file_path].data,
         tags |-> [title |-> song_data.name,
                   album |-> album_data,
                   artist |-> song_data.artist,
                   tracknumber |-> Str(track_number)]])

\* os.path.join("downloads", album)
FolderPath(album) == <<"downloads", album>>

\* os.path.join(folder_path, f"{song_name}.mp3")
FilePath(folder_path, song_name) == folder_path \o <<song_name, ".mp3">>

\* ------------------------------------------------------ download_playlist

\* enumerate(songs, start=0): the track number one short.
download_playlist_step_from_zero(files, album, songs, index, outcome) ==
    LET song == songs[index]
        file_path == FilePath(FolderPath(album), song.name)
        got == download_mp3(files, song.url, file_path, outcome)
    IN  IF got.ok
        THEN [files |-> add_metadata(got.files, file_path, album, song, index - 1),
              tagged |-> TRUE, track_number |-> index - 1]
        ELSE [files |-> got.files, tagged |-> FALSE, track_number |-> 0]

\* One turn of download_playlist's loop, on the index-th song (from 1): the
\* download, and the tags when it returned True.
download_playlist_step(files, album, songs, index, outcome) ==
    LET song == songs[index]
        file_path == FilePath(FolderPath(album), song.name)
        got == download_mp3(files, song.url, file_path, outcome)
    IN  IF got.ok
        THEN [files |-> add_metadata(got.files, file_path, album, song, index),
              tagged |-> TRUE, track_number |-> index]
        ELSE [files |-> got.files, tagged |-> FALSE, track_number |-> 0]

\* ------------------------------------------------------------------ state

VARIABLES
    pc,             \* where main() is (Spec); the call's phase in the other two
    options,        \* list_and_select's options while it runs: chants, albums, song_urls
    selected_chant, chant,
    selected_album, album,
    playlist,
    mode,           \* download_all == 'y': "all", otherwise "one"
    index,          \* download_playlist's loop index
    selected_song, song_name,
    song_data, song_index,
    folders,        \* the directories os.makedirs created
    files,          \* the files written: path -> [data, tags]
    err, err_at,    \* the uncaught exception that ended the run, and the step
    diag,           \* get_playlist's diagnostic
    prompted,       \* the prompts that were shown
    last_out,       \* how the last turn of list_and_select ended
    quit_typed,     \* the prompts at which the line read was q or Q
    answered_y,     \* the line read at the download-mode prompt was y or Y
    fetched,        \* the page fetches made: <<step, status, anchors matched>>
    log,            \* the downloads attempted, in order
    str_option,     \* SpecSelect: the line read last
    ret,            \* SpecSelect: what list_and_select returned
    rejected,       \* SpecSelect: the corrective messages printed so far
    response,       \* SpecOptions: the response of the page fetch
    opt_result      \* SpecOptions: what get_options made of it

mainVars ==
    <<selected_chant, chant, selected_album, album, playlist, mode, index,
      selected_song, song_name, song_data, song_index, folders, files,
      err, err_at, diag, prompted, quit_typed, answered_y, fetched, log>>
selVars == <<str_option, ret, rejected>>
extVars == <<response, opt_result>>
vars == <<pc, options, last_out, mainVars, selVars, extVars>>

NoTrack == [name |-> "", url |-> <<>>, artist |-> ""]
NoFiles == [p \in {} |-> NoTags]
Pending == [ok |-> FALSE, err |-> "pending", value |-> <<>>]

\* Everything but pc, options, str_option's companions and the response.
InitRest ==
    /\ last_out = "none"
    /\ selected_chant = "" /\ chant = ""
    /\ selected_album = "" /\ album = ""
    /\ playlist = <<>>
    /\ mode = "none"
    /\ index = 0
    /\ selected_song = <<>> /\ song_name = ""
    /\ song_data = NoTrack /\ song_index = 0
    /\ folders = {}
    /\ files = NoFiles
    /\ err = "" /\ err_at = ""
    /\ diag = ""
    /\ prompted = {}
    /\ quit_typed = {}
    /\ answered_y = FALSE
    /\ fetched = {}
    /\ log = <<>>
    /\ str_option = <<>>
    /\ ret = NoItem
    /\ rejected = {}
    /\ opt_result = Pending

Init ==
    /\ pc = "get_chants"
    /\ options = <<>>
    /\ response = [status |-> "fail", body |-> <<>>]
    /\ InitRest

\* The line is the quit token, in either case.
TypedQuit(line) == line \in {<<"q">>, <<"Q">>}

Typed(site, line) == IF TypedQuit(line) THEN quit_typed \cup {site} ELSE quit_typed

\* The anchors of a fetched page that carry the chants-title class.
ChantAnchors(resp) == {i \in 1..Len(resp.body) : resp.body[i].class = "chants-title"}

Fetched(site, resp) == fetched \cup {<<site, resp.status, ChantAnchors(resp) # {}>>}

IndexError == "IndexError: list index out of range"

\* ---------------------------------------------------------------- main()

\* chants = get_options(chants_url, chant_pattern)
GetChants ==
    /\ pc = "get_chants"
    /\ \E resp \in Responses(Pages) :
         /\ fetched' = Fetched("chants", resp)
         /\ LET r == get_options(resp)
            IN  IF r.ok
                THEN /\ options' = r.value
                     /\ pc' = "select_chant"
                     /\ UNCHANGED <<err, err_at>>
                ELSE /\ pc' = "error"
                     /\ err' = r.err
                     /\ err_at' = "chants"
                     /\ UNCHANGED options
    /\ UNCHANGED <<last_out, selected_chant, chant, selected_album, album,
                   playlist, mode, index, selected_song, song_name, song_data,
                   song_index, folders, files, diag, prompted, quit_typed,
                   answered_y, log, selVars, extVars>>

\* selected_chant, chant = list_and_select(chants): one line read.
SelectChant ==
    /\ pc = "select_chant"
    /\ \E line \in KeyedLines :
         LET r == list_and_select(options, line)
         IN  /\ last_out' = r.kind
             /\ quit_typed' = Typed("chant", line)
             /\ IF r.kind = "return"
                THEN /\ pc' = "get_albums"
                     /\ selected_chant' = r.value
                     /\ chant' = r.key
                     /\ options' = <<>>
                     /\ UNCHANGED <<err, err_at>>
                ELSE IF r.kind = "index_error"
                THEN /\ pc' = "error"
                     /\ err' = IndexError
                     /\ err_at' = "chant"
                     /\ UNCHANGED <<options, selected_chant, chant>>
                ELSE /\ pc' = IF r.kind = "quit" THEN "quit" ELSE pc
                     /\ UNCHANGED <<options, selected_chant, chant, err, err_at>>
    /\ prompted' = prompted \cup {"chant"}
    /\ UNCHANGED <<selected_album, album, playlist, mode, index, selected_song,
                   song_name, song_data, song_index, folders, files, diag,
                   answered_y, fetched, log, selVars, extVars>>

\* albums = get_options(chant_page_url, chant_pattern)
GetAlbums ==
    /\ pc = "get_albums"
    /\ \E resp \in Responses(Pages) :
         /\ fetched' = Fetched("albums", resp)
         /\ LET r == get_options(resp)
            IN  IF r.ok
                THEN /\ options' = r.value
                     /\ pc' = "select_album"
                     /\ UNCHANGED <<err, err_at>>
                ELSE /\ pc' = "error"
                     /\ err' = r.err
                     /\ err_at' = "albums"
                     /\ UNCHANGED options
    /\ UNCHANGED <<last_out, selected_chant, chant, selected_album, album,
                   playlist, mode, index, selected_song, song_name, song_data,
                   song_index, folders, files, diag, prompted, quit_typed,
                   answered_y, log, selVars, extVars>>

\* selected_album, album = list_and_select(albums): one line read.
SelectAlbum ==
    /\ pc = "select_album"
    /\ \E line \in KeyedLines :
         LET r == list_and_select(options, line)
         IN  /\ last_out' = r.kind
             /\ quit_typed' = Typed("album", line)
             /\ IF r.kind = "return"
                THEN /\ pc' = "get_playlist"
                     /\ selected_album' = r.value
                     /\ album' = r.key
                     /\ options' = <<>>
                     /\ UNCHANGED <<err, err_at>>
                ELSE IF r.kind = "index_error"
                THEN /\ pc' = "error"
                     /\ err' = IndexError
                     /\ err_at' = "album"
                     /\ UNCHANGED <<options, selected_album, album>>
                ELSE /\ pc' = IF r.kind = "quit" THEN "quit" ELSE pc
                     /\ UNCHANGED <<options, selected_album, album, err, err_at>>
    /\ prompted' = prompted \cup {"album"}
    /\ UNCHANGED <<selected_chant, chant, playlist, mode, index, selected_song,
                   song_name, song_data, song_index, folders, files, diag,
                   answered_y, fetched, log, selVars, extVars>>

\* playlist = get_playlist(url=album_url, pattern=playlist_pattern)
GetPlaylist ==
    /\ pc = "get_playlist"
    /\ \E resp \in Responses(AlbumPages) :
         /\ fetched' = fetched \cup {<<"playlist", resp.status, TRUE>>}
         /\ LET r == get_playlist(resp)
            IN  IF r.ok
                THEN /\ playlist' = r.value
                     /\ diag' = r.diag
                     /\ pc' = "choose_mode"
                     /\ UNCHANGED <<err, err_at>>
                ELSE /\ pc' = "error"
                     /\ err' = r.err
                     /\ err_at' = "playlist"
                     /\ UNCHANGED <<playlist, diag>>
    /\ UNCHANGED <<options, last_out, selected_chant, chant, selected_album, album,
                   mode, index, selected_song, song_name, song_data, song_index,
                   folders, files, prompted, quit_typed, answered_y, log, selVars,
                   extVars>>

\* {song['name']: song['url'] for song in playlist}
SongUrls(songs) ==
    DictOf([i \in 1..Len(songs) |-> <<songs[i].name, songs[i].url>>], <<>>)

\* download_all = input(...).lower(); 'y' starts download_playlist (the folder
\* made, the loop entered), anything else builds song_urls for the track menu.
ChooseMode ==
    /\ pc = "choose_mode"
    /\ \E line \in KeyedLines :
         /\ quit_typed' = Typed("mode", line)
         /\ answered_y' = (line \in {<<"y">>, <<"Y">>})
         /\ IF Lower(line) = <<"y">>
            THEN /\ mode' = "all"
                 /\ folders' = folders \cup {FolderPath(album)}
                 /\ index' = 1
                 /\ pc' = IF playlist = <<>> THEN "done" ELSE "download_all"
                 /\ UNCHANGED options
            ELSE /\ mode' = "one"
                 /\ options' = SongUrls(playlist)
                 /\ pc' = "select_song"
                 /\ UNCHANGED <<folders, index>>
    /\ prompted' = prompted \cup {"mode"}
    /\ UNCHANGED <<last_out, selected_chant, chant, selected_album, album,
                   playlist, selected_song, song_name, song_data, song_index,
                   files, err, err_at, diag, fetched, log, selVars, extVars>>

\* One turn of download_playlist's loop.
DownloadTrack ==
    /\ pc = "download_all"
    /\ index <= Len(playlist)
    /\ \E outcome \in Outcomes :
         LET step == download_playlist_step(files, album, playlist, index, outcome)
         IN  /\ files' = step.files
             /\ log' = Append(log, [song |-> playlist[index],
                                    url |-> Resolve(playlist[index].url),
                                    outcome |-> outcome,
                                    tagged |-> step.tagged,
                                    track_number |-> step.track_number])
    /\ index' = index + 1
    /\ pc' = IF index = Len(playlist) THEN "done" ELSE "download_all"
    /\ UNCHANGED <<options, last_out, selected_chant, chant, selected_album, album,
                   playlist, mode, selected_song, song_name, song_data, song_index,
                   folders, err, err_at, diag, prompted, quit_typed, answered_y,
                   fetched, selVars, extVars>>

\* selected_song, song_name = list_and_select(song_urls): one line read; on
\* the return the album folder is made.
SelectSong ==
    /\ pc = "select_song"
    /\ \E line \in KeyedLines :
         LET r == list_and_select(options, line)
         IN  /\ last_out' = r.kind
             /\ quit_typed' = Typed("song", line)
             /\ IF r.kind = "return"
                THEN /\ pc' = "download_one"
                     /\ selected_song' = r.value
                     /\ song_name' = r.key
                     /\ options' = <<>>
                     /\ folders' = folders \cup {FolderPath(album)}
                     /\ UNCHANGED <<err, err_at>>
                ELSE IF r.kind = "index_error"
                THEN /\ pc' = "error"
                     /\ err' = IndexError
                     /\ err_at' = "song"
                     /\ UNCHANGED <<options, selected_song, song_name, folders>>
                ELSE /\ pc' = IF r.kind = "quit" THEN "quit" ELSE pc
                     /\ UNCHANGED <<options, selected_song, song_name, folders, err, err_at>>
    /\ prompted' = prompted \cup {"song"}
    /\ UNCHANGED <<selected_chant, chant, selected_album, album, playlist, mode,
                   index, song_data, song_index, files, diag, answered_y, fetched,
                   log, selVars, extVars>>

\* next(song for song in playlist if song['name'] == song_name)
FirstNamed(songs, name) ==
    songs[CHOOSE i \in 1..Len(songs) :
            /\ songs[i].name = name
            /\ \A j \in 1..(i - 1) : songs[j].name # name]

\* playlist.index(song_data)
IndexOf(songs, song) ==
    (CHOOSE i \in 1..Len(songs) :
        /\ songs[i] = song
        /\ \A j \in 1..(i - 1) : songs[j] # song) - 1

TypeErrorMissingArg ==
    "TypeError: add_metadata() missing 1 required positional argument: 'song_data'"

\* download_mp3(selected_song, file_path); when it returns True the record is
\* looked up by name and add_metadata is called with file_path, song_data and
\* track_number only, which raises TypeError before anything is tagged.
DownloadOne ==
    /\ pc = "download_one"
    /\ \E outcome \in Outcomes :
         LET file_path == FilePath(FolderPath(album), song_name)
             got == download_mp3(files, selected_song, file_path, outcome)
         IN  /\ files' = got.files
             /\ log' = Append(log, [song |-> FirstNamed(playlist, song_name),
                                    url |-> Resolve(selected_song),
                                    outcome |-> outcome,
                                    tagged |-> FALSE,
                                    track_number |-> 0])
             /\ IF got.ok
                THEN /\ song_data' = FirstNamed(playlist, song_name)
                     /\ song_index' = IndexOf(playlist, FirstNamed(playlist, song_name)) + 1
                     /\ pc' = "error"
                     /\ err' = TypeErrorMissingArg
                     /\ err_at' = "add_metadata"
                ELSE /\ pc' = "done"
                     /\ UNCHANGED <<song_data, song_index, err, err_at>>
    /\ UNCHANGED <<options, last_out, selected_chant, chant, selected_album, album,
                   playlist, mode, index, selected_song, song_name, folders, diag,
                   prompted, quit_typed, answered_y, fetched, selVars, extVars>>

Next ==
    \/ GetChants
    \/ SelectChant
    \/ GetAlbums
    \/ SelectAlbum
    \/ GetPlaylist
    \/ ChooseMode
    \/ DownloadTrack
    \/ SelectSong
    \/ DownloadOne

Spec == Init /\ [][Next]_vars

\* ------------------------------------------- list_and_select on its own

\* The mappings SpecSelect hands to list_and_select: the first n of these.
MenuItems ==
    << <<"K1", "/v1">>, <<"K2", "/v2">>, <<"K3", "/v3">>, <<"K4", "/v4">>, <<"K5", "/v5">> >>

Menus == {SubSeq(MenuItems, 1, n) : n \in 0..MaxOptions}

InitSelect ==
    /\ pc = "menu"
    /\ options \in Menus
    /\ response = [status |-> "fail", body |-> <<>>]
    /\ InitRest

\* The menu printed and input() called: a line read into str_option.
Prompt ==
    /\ pc = "menu"
    /\ \E line \in Lines : str_option' = line
    /\ pc' = "read"
    /\ UNCHANGED <<options, last_out, ret, rejected, mainVars, extVars>>

\* The rest of the turn: the line handled.  After a corrective message the
\* loop goes round and str_option, which the next input() overwrites before
\* anything reads it, is left out of the state.
Handle ==
    /\ pc = "read"
    /\ LET r == list_and_select(options, str_option)
       IN  /\ last_out' = r.kind
           /\ ret' = <<r.value, r.key>>
           /\ rejected' = IF r.kind \in {"range", "invalid"}
                           THEN rejected \cup {r.kind}
                           ELSE rejected
           /\ pc' = CASE r.kind = "return" -> "returned"
                       [] r.kind = "quit" -> "quit"
                       [] r.kind = "index_error" -> "error"
                       [] OTHER -> "menu"
           /\ str_option' = IF r.kind \in {"range", "invalid"} THEN <<>> ELSE str_option
    /\ UNCHANGED <<options, mainVars, extVars>>

NextSelect == Prompt \/ Handle

SpecSelect == InitSelect /\ [][NextSelect]_vars

\* ----------------------------------------------- get_options on its own

InitOptions ==
    /\ pc = "get_options"
    /\ options = <<>>
    /\ response \in Responses(Pages)
    /\ InitRest

\* get_options(url, chant_pattern) on the response the request gets.
CallGetOptions ==
    /\ pc = "get_options"
    /\ opt_result' = get_options(response)
    /\ pc' = "returned"
    /\ UNCHANGED <<options, last_out, mainVars, selVars, response>>

NextOptions == CallGetOptions

SpecOptions == InitOptions /\ [][NextOptions]_vars

\* ================================================================ claims

\* ---- C1 (SpecSelect)

C1_Turn ==
    LET n == Len(options)
        parsed == ParseInt(str_option)
        valid == parsed.ok /\ 0 <= parsed.val /\ parsed.val < n
    IN  /\ pc = "menu" => pc' = "read"
        /\ pc = "read" =>
             /\ TypedQuit(str_option) => pc' = "quit"
             /\ (~TypedQuit(str_option) /\ valid) =>
                  /\ pc' = "returned"
                  /\ ret' = <<options[parsed.val + 1][2], options[parsed.val + 1][1]>>
             /\ (~TypedQuit(str_option) /\ ~valid) =>
                  /\ pc' = "menu"
                  /\ last_out' = IF parsed.ok THEN "range" ELSE "invalid"
                  /\ rejected' = rejected \cup {last_out'}
             /\ \A v \in 0..(n - 1) :
                  str_option = Str(v) => pc' = "returned" /\ ret' = <<options[v + 1][2], options[v + 1][1]>>
        /\ pc \notin {"menu", "read"} => FALSE

\* C1: in every turn of list_and_select a line that is q or Q ends the process;
\* otherwise a line int() reads as an integer within [0, count) makes the call
\* return the (value, label) pair at that index (the plain decimal of an index
\* is such a line); any other line gets the corrective message for its case
\* and the menu again; and nothing follows the return or the quit.
C1_FirstIndexLineReturns == [][C1_Turn]_vars

\* C1 witness: on a 3-option menu a non-numeric and an out-of-range line were
\* rejected and the line 1 then returned the option at index 1.
C1_Witness ==
    /\ pc = "returned"
    /\ Len(options) = 3
    /\ rejected = {"invalid", "range"}
    /\ str_option = <<"1">>
    /\ ret = <<"/v2", "K2">>

\* ---- C2, C10 (Spec, bulk mode)

\* The path download_playlist writes the track to.
TrackPath(song) == <<"downloads", album, song.name, ".mp3">>

TagsFor(song, k) ==
    [title |-> song.name, album |-> album, artist |-> song.artist, tracknumber |-> Str(k)]

\* C2: in bulk mode the k-th download attempted is the k-th track of the
\* playlist, whatever became of the earlier ones; a track is tagged exactly
\* when its download succeeded, and then with track number k (the file at its
\* path carries k right after); the loop neither stops early nor repeats, and
\* at the end every track was attempted once.
C2_BulkTrackNumberIsPosition ==
    mode = "all" =>
        /\ pc \in {"download_all", "done"}
        /\ pc = "download_all" => Len(log) = index - 1 /\ index <= Len(playlist)
        /\ pc = "done" => Len(log) = Len(playlist)
        /\ \A k \in 1..Len(log) :
             /\ log[k].song = playlist[k]
             /\ log[k].url = Resolve(playlist[k].url)
             /\ log[k].tagged <=> log[k].outcome = "ok"
             /\ log[k].tagged => log[k].track_number = k
        /\ log # <<>> =>
             LET k == Len(log)
                 path == TrackPath(playlist[k])
             IN  /\ log[k].outcome = "ok" =>
                       path \in DOMAIN files /\ files[path].tags = TagsFor(playlist[k], k)
                 /\ log[k].outcome = "broken" =>
                       path \in DOMAIN files /\ files[path].tags = NoTags
                 /\ (log[k].outcome = "refused" /\ path \in DOMAIN files) =>
                       files[path].tags.tracknumber # Str(k)

\* C2 witness: a two-track run in which the first download failed and the
\* second succeeded and was tagged as track 2.
C2_Witness ==
    /\ mode = "all"
    /\ pc = "done"
    /\ Len(log) = 2
    /\ log[1].outcome # "ok"
    /\ log[2].outcome = "ok"
    /\ files[TrackPath(playlist[2])].tags.tracknumber = <<"2">>

\* The last of the first n tracks that has the name.
LastAmong(n, name) ==
    CHOOSE i \in 1..n :
        /\ playlist[i].name = name
        /\ \A j \in (i + 1)..n : playlist[j].name # name

\* C10: in bulk mode the files written are at downloads/<album>/<name>.mp3 for
\* names of tracks attempted, so at most one per distinct name; and while every
\* download so far succeeded, the file of a name holds exactly the body and
\* the tags (track number included) of the last track attempted with that name.
C10_BulkSameNameOverwrites ==
    mode = "all" =>
        LET n == Len(log)
            names == {playlist[i].name : i \in 1..n}
        IN  /\ DOMAIN files \subseteq {<<"downloads", album, nm, ".mp3">> : nm \in names}
            /\ Cardinality(DOMAIN files) <= Cardinality(names)
            /\ (\A k \in 1..n : log[k].outcome = "ok") =>
                 \A nm \in names :
                    LET last == LastAmong(n, nm)
                        path == <<"downloads", album, nm, ".mp3">>
                    IN  /\ path \in DOMAIN files
                        /\ files[path].data = Content(Resolve(playlist[last].url))
                        /\ files[path].tags = TagsFor(playlist[last], last)

\* C10 witness: two tracks of one name and different URLs, both downloaded:
\* one file, holding the second.
C10_Witness ==
    /\ mode = "all"
    /\ pc = "done"
    /\ Len(playlist) = 2
    /\ playlist[1].name = playlist[2].name
    /\ playlist[1].url # playlist[2].url
    /\ \A k \in 1..2 : log[k].outcome = "ok"
    /\ Cardinality(DOMAIN files) = 1
    /\ files[TrackPath(playlist[2])].tags.tracknumber = <<"2">>

\* ---- C3, C9 (Spec, single-track mode)

FirstPos(name) ==
    CHOOSE i \in 1..Len(playlist) :
        /\ playlist[i].name = name
        /\ \A j \in 1..(i - 1) : playlist[j].name # name

LastPos(name) == LastAmong(Len(playlist), name)

\* C3, as claimed: once the single-track download has succeeded the run
\* reaches Done with the file tagged title = the track name, album = the album
\* label, artist and track number those of the first playlist entry of that
\* name.
C3_SingleTrackTagged ==
    (mode = "one" /\ log # <<>> /\ log[1].outcome = "ok") =>
        /\ pc = "done"
        /\ files[<<"downloads", album, song_name, ".mp3">>].tags =
              TagsFor(playlist[FirstPos(song_name)], FirstPos(song_name))

\* C9: in single-track mode the menu lists each track name once, in the order
\* of first occurrence, with the URL of the last track of that name; the URL
\* requested (and the body written) is that of the last track of the chosen
\* name, while the record looked up for the tags is the first track of that
\* name, at its position.
C9_SingleSameNameSplit ==
    mode = "one" =>
        /\ pc = "select_song" =>
             /\ {options[i][1] : i \in 1..Len(options)} = {playlist[i].name : i \in 1..Len(playlist)}
             /\ \A i, j \in 1..Len(options) :
                  i < j => FirstPos(options[i][1]) < FirstPos(options[j][1])
             /\ \A i \in 1..Len(options) :
                  options[i][2] = playlist[LastPos(options[i][1])].url
        /\ pc = "download_one" => selected_song = playlist[LastPos(song_name)].url
        /\ log # <<>> =>
             /\ log[1].url = Resolve(playlist[LastPos(song_name)].url)
             /\ log[1].outcome = "ok" =>
                  /\ files[<<"downloads", album, song_name, ".mp3">>].data =
                        Content(Resolve(playlist[LastPos(song_name)].url))
                  /\ song_data = playlist[FirstPos(song_name)]
                  /\ song_index = FirstPos(song_name)

\* C9 witness: the audio of one track was written and the record of another
\* of the same name was looked up.
C9_Witness ==
    /\ mode = "one"
    /\ log # <<>>
    /\ log[1].outcome = "ok"
    /\ FirstPos(song_name) # LastPos(song_name)
    /\ song_data.url # selected_song
    /\ song_data.artist # playlist[LastPos(song_name)].artist
    /\ song_index = 1

\* ---- C4, C5 (Spec, the fetches)

PromptsBefore(step) ==
    CASE step = "chants" -> {}
      [] step = "albums" -> {"chant"}
      [] OTHER -> {"chant", "album"}

\* C4: get_options never hands an empty mapping to a menu; and a fetch that
\* failed, or a chant or album page without a matching anchor, ended the run
\* with the error of that step, with no prompt shown after it, no folder made
\* and nothing downloaded.
C4_FetchOrNoOptionsIsFatal ==
    /\ pc \in {"select_chant", "select_album"} => options # <<>>
    /\ \A f \in fetched :
         (f[2] = "fail" \/ (f[1] \in {"chants", "albums"} /\ ~f[3])) =>
            /\ pc = "error"
            /\ err_at = f[1]
            /\ err = IF f[2] = "fail" THEN FetchError ELSE NoResults
            /\ prompted = PromptsBefore(f[1])
            /\ folders = {} /\ files = NoFiles /\ log = <<>>

\* C4 witness: the album page had no matching anchor and the run ended there,
\* after the chant menu only.
C4_Witness ==
    /\ pc = "error"
    /\ err_at = "albums"
    /\ err = NoResults
    /\ <<"albums", "ok", FALSE>> \in fetched
    /\ prompted = {"chant"}

\* C5, as claimed: once the album page was fetched, get_playlist raises
\* nothing and the run goes on to the download-mode prompt.
C5_PlaylistNeverRaises ==
    <<"playlist", "ok", TRUE>> \in fetched =>
        /\ ~(pc = "error" /\ err_at = "playlist")
        /\ pc \in {"choose_mode", "download_all", "select_song", "download_one",
                   "done", "quit", "error"}

\* ---- C6, C8 (Spec, the prompts)

PromptsUpTo(site) ==
    CASE site = "chant" -> {"chant"}
      [] site = "album" -> {"chant", "album"}
      [] site = "mode" -> {"chant", "album", "mode"}
      [] OTHER -> {"chant", "album", "mode", "song"}

\* C6, as claimed: q or Q read at any prompt has ended the process, with no
\* prompt after that one and nothing downloaded.
C6_QuitAtAnyPrompt ==
    \A site \in quit_typed :
        /\ pc = "quit"
        /\ prompted \subseteq PromptsUpTo(site)
        /\ files = NoFiles /\ log = <<>>

\* C6, amended: q or Q read at the chant, album or track menu has ended the
\* process, with no prompt after that one, no folder made and nothing
\* downloaded, and the process quits in no other way; read at the
\* download-mode prompt it is an answer other than y: single-track mode.
C6_QuitAtMenus ==
    /\ \A site \in quit_typed \ {"mode"} :
         /\ pc = "quit"
         /\ prompted = PromptsUpTo(site)
         /\ folders = {} /\ files = NoFiles /\ log = <<>>
    /\ "mode" \in quit_typed =>
         /\ mode = "one"
         /\ pc \in {"select_song", "download_one", "done", "error", "quit"}
    /\ pc = "quit" => quit_typed \ {"mode"} # {}

\* C6 witness: q was read at the download-mode prompt, the track menu came
\* up, and q read there ended the process.
C6_Witness ==
    /\ quit_typed = {"mode", "song"}
    /\ pc = "quit"
    /\ prompted = {"chant", "album", "mode", "song"}

\* C8: with an empty playlist and an answer other than y or Y, the track
\* menu has no option: every line read there that is not the quit token got
\* a corrective message and the menu again, nothing was selected, no folder
\* made and nothing downloaded, and the run is at that menu or has quit there.
C8_EmptyMenuOnlyQuits ==
    (playlist = <<>> /\ "mode" \in prompted /\ ~answered_y) =>
        /\ mode = "one"
        /\ options = <<>>
        /\ pc \in {"select_song", "quit"}
        /\ (pc = "select_song" /\ "song" \in prompted) => last_out \in {"range", "invalid"}
        /\ pc = "quit" => last_out = "quit" /\ "song" \in quit_typed
        /\ selected_song = <<>> /\ song_name = ""
        /\ folders = {} /\ files = NoFiles /\ log = <<>>

\* C8 witness: at the empty track menu a number was read and rejected.
C8_Witness ==
    /\ playlist = <<>>
    /\ ~answered_y
    /\ pc = "select_song"
    /\ options = <<>>
    /\ last_out = "range"

\* ---- C7 (SpecOptions)

\* The matching anchors of the fetched page: their places, titles, and the
\* first and last place of a title.
MatchedAt == ChantAnchors(response)
MatchedTitles == {response.body[i].title : i \in MatchedAt}
FirstAt(title) ==
    CHOOSE i \in MatchedAt :
        response.body[i].title = title
        /\ \A j \in MatchedAt : response.body[j].title = title => i <= j
LastAt(title) ==
    CHOOSE i \in MatchedAt :
        response.body[i].title = title
        /\ \A j \in MatchedAt : response.body[j].title = title => j <= i
\* The place of the k-th matching anchor.
NthMatch(k) == CHOOSE i \in MatchedAt : Cardinality({j \in MatchedAt : j <= i}) = k

\* C7, as claimed: on a page with a matching anchor the mapping has one entry
\* per match, the k-th keyed by the title of the k-th match and holding its
\* href.
C7_OneEntryPerMatch ==
    (pc = "returned" /\ response.status = "ok" /\ MatchedAt # {}) =>
        /\ opt_result.ok
        /\ Len(opt_result.value) = Cardinality(MatchedAt)
        /\ \A k \in 1..Len(opt_result.value) :
             opt_result.value[k] =
                <<response.body[NthMatch(k)].title, response.body[NthMatch(k)].href>>

\* C7, amended: on a page with a matching anchor the mapping has one entry
\* per distinct captured title, the keys in the order the titles first occur,
\* each holding the href of the last match with that title; when the titles
\* are all different that is one entry per match, in document order.
C7_OneEntryPerTitle ==
    (pc = "returned" /\ response.status = "ok" /\ MatchedAt # {}) =>
        LET d == opt_result.value
        IN  /\ opt_result.ok
            /\ Len(d) = Cardinality(MatchedTitles)
            /\ {d[k][1] : k \in 1..Len(d)} = MatchedTitles
            /\ \A a, b \in 1..Len(d) : a < b => FirstAt(d[a][1]) < FirstAt(d[b][1])
            /\ \A k \in 1..Len(d) : d[k][2] = response.body[LastAt(d[k][1])].href
            /\ Cardinality(MatchedTitles) = Cardinality(MatchedAt) =>
                 \A k \in 1..Len(d) :
                    d[k] = <<response.body[NthMatch(k)].title, response.body[NthMatch(k)].href>>

\* C7 witness: two matching anchors of one title and different hrefs gave one
\* entry, holding the second href.
C7_Witness ==
    /\ pc = "returned"
    /\ opt_result.ok
    /\ Cardinality(MatchedAt) = 2
    /\ Len(opt_result.value) = 1
    /\ response.body[1].href # response.body[2].href
    /\ opt_result.value[1][2] = response.body[2].href

====
